---- MODULE Spec2Model ----
(***************************************************************************)
(* BTC short straddle monitor (src/app.py): the premium extractor, the     *)
(* bounded premium history kept in the Streamlit session state, the trend  *)
(* and risk classifiers, and the script-run / rerun loop of main().        *)
(*                                                                         *)
(* Prices are natural numbers (a fixed minor unit); the classifiers'       *)
(* quotients are exact rationals [n, d] with d > 0, so every threshold     *)
(* comparison is decided exactly.  A Python exception is the value         *)
(* ZeroDivisionError; Python's None is the empty tuple and a present       *)
(* value v is <<v>>.                                                       *)
(***************************************************************************)
EXTENDS Integers, Sequences, FiniteSets, TLC

\* ------------------------------------------------------------ constants

STRIKE_1 == 75000
STRIKE_2 == 80000
\* "Keep only last 500 data points"
HISTORY_CAP == 500
\* determine_trend's default window
DEFAULT_WINDOW == 5
\* determine_risk_status's lookback: len(history) < 10, premiums[-10]
RISK_LOOKBACK == 10

\* ------------------------------------------------------------ Python values

None == <<>>
Some(v) == <<v>>
IsNone(o) == o = <<>>
Val(o) == o[1]

ZeroDivisionError == "ZeroDivisionError"

\* dict.get(key, default); the code's default 0 is passed as the text "0"
Get(d, key, default) == IF key \in DOMAIN d THEN d[key] ELSE default

\* The exchange's JSON carries numbers as decimal text; text is a tuple of
\* characters.  Amounts are whole numbers of the minor unit.
Digits == <<"0", "1", "2", "3", "4", "5", "6", "7", "8", "9">>
DigitValue(c) ==
    CASE c = "0" -> 0 [] c = "1" -> 1 [] c = "2" -> 2 [] c = "3" -> 3 [] c = "4" -> 4
      [] c = "5" -> 5 [] c = "6" -> 6 [] c = "7" -> 7 [] c = "8" -> 8 [] c = "9" -> 9

\* the number spelt by the first k characters of decimal text
RECURSIVE DecimalPrefix(_, _)
DecimalPrefix(x, k) ==
    IF k = 0 THEN 0 ELSE 10 * DecimalPrefix(x, k - 1) + DigitValue(x[k])

\* float(x) of decimal text
Float(x) == DecimalPrefix(x, Len(x))

\* the decimal text of a number, as the exchange renders it
RECURSIVE Str(_)
Str(n) == IF n < 10 THEN <<Digits[n + 1]>> ELSE Str(n \div 10) \o <<Digits[(n % 10) + 1]>>

\* str.startswith(prefix); strings are tuples of characters
StartsWith(s, prefix) ==
    /\ Len(s) >= Len(prefix)
    /\ SubSeq(s, 1, Len(prefix)) = prefix

\* seq[-k:]  (Python: -0 is 0, so seq[-0:] is the whole list)
LastK(seq, k) ==
    IF k = 0 \/ k >= Len(seq) THEN seq ELSE SubSeq(seq, Len(seq) - k + 1, Len(seq))

\* seq[-(k - 1)]: the lookback index taken one entry too late
FromEndOffByOne(seq, k) == seq[Len(seq) - k + 2]

\* seq[-k] for 1 <= k <= len(seq)
FromEnd(seq, k) == seq[Len(seq) - k + 1]

\* sum(), min() and max() of a list, folded by halves
RECURSIVE Sum(_)
Sum(s) ==
    IF s = <<>> THEN 0
    ELSE IF Len(s) = 1 THEN s[1]
    ELSE LET mid == Len(s) \div 2
         IN  Sum(SubSeq(s, 1, mid)) + Sum(SubSeq(s, mid + 1, Len(s)))

RECURSIVE Min(_)
Min(s) ==
    IF Len(s) = 1 THEN s[1]
    ELSE LET mid == Len(s) \div 2
             a   == Min(SubSeq(s, 1, mid))
             b   == Min(SubSeq(s, mid + 1, Len(s)))
         IN  IF a <= b THEN a ELSE b

RECURSIVE Max(_)
Max(s) ==
    IF Len(s) = 1 THEN s[1]
    ELSE LET mid == Len(s) \div 2
             a   == Max(SubSeq(s, 1, mid))
             b   == Max(SubSeq(s, mid + 1, Len(s)))
         IN  IF a >= b THEN a ELSE b

\* ------------------------------------------------------------ exact quotients

Rat(n, d) == [n |-> n, d |-> d]
\* the operands of a difference taken in the wrong order
RSubSwapped(a, b) == Rat(b.n * a.d - a.n * b.d, a.d * b.d)
RSub(a, b) == Rat(a.n * b.d - b.n * a.d, a.d * b.d)
\* a / b for b # 0, keeping the denominator positive
RDiv(a, b) ==
    IF b.n > 0 THEN Rat(a.n * b.d, a.d * b.n) ELSE Rat(-(a.n * b.d), -(a.d * b.n))
RMul(a, k) == Rat(a.n * k, a.d)
\* >= where the code has >
RGe(a, k) == a.n >= k * a.d
RGt(a, k) == a.n > k * a.d
RLt(a, k) == a.n < k * a.d

\* ------------------------------------------------------------ premium extractor

\* `if option_chain:` -- neither None nor an empty list
Truthy(option_chain) == ~IsNone(option_chain) /\ Val(option_chain) # <<>>

Matches(option, strike, option_type) ==
    /\ Float(Get(option, "strike_price", <<"0">>)) = strike
    /\ StartsWith(Get(option, "symbol", <<>>), option_type)

\* a lookup that lets the last matching record win
GetOptionPriceLast(option_chain, strike, option_type) ==
    IF ~Truthy(option_chain) THEN None
    ELSE LET chain == Val(option_chain)
             hits == {i \in 1..Len(chain) : Matches(chain[i], strike, option_type)}
         IN  IF hits = {} THEN None
             ELSE LET last == CHOOSE i \in hits : \A j \in hits : i >= j
                  IN  Some(Float(Get(chain[last], "mark_price", <<"0">>)))

\* the first record of the list, in list order, that matches
get_option_price(option_chain, strike, option_type) ==
    IF ~Truthy(option_chain) THEN None
    ELSE LET chain == Val(option_chain)
             hits == {i \in 1..Len(chain) : Matches(chain[i], strike, option_type)}
         IN  IF hits = {} THEN None
             ELSE LET first == CHOOSE i \in hits : \A j \in hits : i <= j
                  IN  Some(Float(Get(chain[first], "mark_price", <<"0">>)))

get_spot_price(option_chain) ==
    IF ~IsNone(option_chain) /\ Len(Val(option_chain)) > 0
    THEN Some(Float(Get(Val(option_chain)[1], "spot_price", <<"0">>)))
    ELSE None

\* an extractor that prices an absent leg at 0: (get_option_price(...) or 0)
CalculateMissingAsZero(option_chain, strike_1, strike_2) ==
    LET Price(strike, kind) ==
            LET p == get_option_price(option_chain, strike, kind)
            IN  IF IsNone(p) THEN 0 ELSE Val(p)
        call_1 == Price(strike_1, <<"C">>)
        put_1  == Price(strike_1, <<"P">>)
        call_2 == Price(strike_2, <<"C">>)
        put_2  == Price(strike_2, <<"P">>)
    IN  Some([straddle_a |-> call_1 + put_1,
              straddle_b |-> call_2 + put_2,
              combined   |-> call_1 + put_1 + call_2 + put_2,
              spot       |-> get_spot_price(option_chain),
              call_1     |-> call_1,
              put_1      |-> put_1,
              call_2     |-> call_2,
              put_2      |-> put_2])

calculate_straddle_premiums(option_chain, strike_1, strike_2) ==
    LET call_1 == get_option_price(option_chain, strike_1, <<"C">>)
        put_1  == get_option_price(option_chain, strike_1, <<"P">>)
        call_2 == get_option_price(option_chain, strike_2, <<"C">>)
        put_2  == get_option_price(option_chain, strike_2, <<"P">>)
        spot   == get_spot_price(option_chain)
    IN  IF None \in {call_1, put_1, call_2, put_2} THEN None
        ELSE LET straddle_a == Val(call_1) + Val(put_1)
                 straddle_b == Val(call_2) + Val(put_2)
                 combined   == straddle_a + straddle_b
             IN  Some([straddle_a |-> straddle_a,
                       straddle_b |-> straddle_b,
                       combined   |-> combined,
                       spot       |-> spot,
                       call_1     |-> Val(call_1),
                       put_1      |-> Val(put_1),
                       call_2     |-> Val(call_2),
                       put_2      |-> Val(put_2)])

\* ------------------------------------------------------------ classifiers

\* [h['combined'] for h in history]
Combined(history) == [i \in 1..Len(history) |-> history[i].combined]

\* a trend classifier whose thresholds include the boundaries: >= 1, <= -1
DetermineTrendInclusive(history, window) ==
    IF Len(history) < window THEN "Insufficient Data"
    ELSE LET recent == Combined(LastK(history, window))
             half   == Len(recent) \div 2
         IN  IF half = 0 THEN ZeroDivisionError
             ELSE LET first_half_avg  == Rat(Sum(SubSeq(recent, 1, half)), half)
                      second_half_avg == Rat(Sum(SubSeq(recent, half + 1, Len(recent))),
                                             Len(recent) - half)
                  IN  IF first_half_avg.n = 0 THEN ZeroDivisionError
                      ELSE LET change_pct ==
                                   RMul(RDiv(RSub(second_half_avg, first_half_avg),
                                             first_half_avg), 100)
                           IN  IF RGe(change_pct, 1) THEN "Rising"
                               ELSE IF ~RGt(change_pct, -1) THEN "Falling"
                               ELSE "Flat"

determine_trend(history, window) ==
    IF Len(history) < window THEN "Insufficient Data"
    ELSE LET recent == Combined(LastK(history, window))
             half   == Len(recent) \div 2
             first  == SubSeq(recent, 1, half)
             second == SubSeq(recent, half + 1, Len(recent))
         IN  IF half = 0 THEN ZeroDivisionError
             ELSE LET first_half_avg  == Rat(Sum(first), half)
                      second_half_avg == Rat(Sum(second), Len(recent) - half)
                  IN  IF first_half_avg.n = 0 THEN ZeroDivisionError
                      ELSE LET change_pct ==
                                   RMul(RDiv(RSub(second_half_avg, first_half_avg),
                                             first_half_avg), 100)
                           IN  IF RGt(change_pct, 1) THEN "Rising"
                               ELSE IF RLt(change_pct, -1) THEN "Falling"
                               ELSE "Flat"

\* a classifier that tests the volatility rule before the two change rules
DetermineRiskVolatilityFirst(history, current_premium) ==
    IF Len(history) < RISK_LOOKBACK
    THEN <<"Neutral", "white", "Collecting initial data...">>
    ELSE LET premiums    == Combined(history)
             avg_premium == Rat(Sum(premiums), Len(premiums))
             reference   == FromEnd(premiums, RISK_LOOKBACK)
         IN  IF avg_premium.n = 0 \/ reference = 0 THEN <<ZeroDivisionError>>
             ELSE LET volatility ==
                          RMul(RDiv(Rat(Max(premiums) - Min(premiums), 1), avg_premium), 100)
                      recent_change_pct ==
                          RMul(RDiv(Rat(current_premium - reference, 1),
                                    Rat(reference, 1)), 100)
                  IN  IF RGt(volatility, 15)
                      THEN <<"Risky", "red", "High premium volatility detected">>
                      ELSE IF RLt(recent_change_pct, -5)
                      THEN <<"Safe", "green", "Premium compressing - Theta decay working well">>
                      ELSE IF RGt(recent_change_pct, 10)
                      THEN <<"Risky", "red", "Premium expanding - Volatility risk increasing">>
                      ELSE IF RGt(recent_change_pct, 5)
                      THEN <<"Neutral", "yellow", "Slight premium expansion - Monitor closely">>
                      ELSE <<"Safe", "green", "Premium stable - Position behaving as expected">>

determine_risk_status(history, current_premium) ==
    IF Len(history) < RISK_LOOKBACK
    THEN <<"Neutral", "white", "Collecting initial data...">>
    ELSE LET premiums    == Combined(history)
             avg_premium == Rat(Sum(premiums), Len(premiums))
             min_premium == Min(premiums)
             max_premium == Max(premiums)
             reference   == FromEnd(premiums, RISK_LOOKBACK)
         IN  IF avg_premium.n = 0 \/ reference = 0 THEN <<ZeroDivisionError>>
             ELSE LET volatility ==
                          RMul(RDiv(Rat(max_premium - min_premium, 1), avg_premium), 100)
                      recent_change_pct ==
                          RMul(RDiv(Rat(current_premium - reference, 1),
                                    Rat(reference, 1)), 100)
                  IN  IF RLt(recent_change_pct, -5)
                      THEN <<"Safe", "green", "Premium compressing - Theta decay working well">>
                      ELSE IF RGt(recent_change_pct, 10)
                      THEN <<"Risky", "red", "Premium expanding - Volatility risk increasing">>
                      ELSE IF RGt(volatility, 15)
                      THEN <<"Risky", "red", "High premium volatility detected">>
                      ELSE IF RGt(recent_change_pct, 5)
                      THEN <<"Neutral", "yellow", "Slight premium expansion - Monitor closely">>
                      ELSE <<"Safe", "green", "Premium stable - Position behaving as expected">>

\* ------------------------------------------------------------ session state

VARIABLES
    premium_history,  \* st.session_state.premium_history
    last_update,      \* st.session_state.last_update: None or <<timestamp>>
    auto_refresh,     \* the "Auto-refresh (30s)" checkbox
    pc,               \* "run": a script run is due; "sleep": in time.sleep(30);
                      \* "idle": the run ended and asked for no rerun
    now,              \* the last datetime.now() read for an entry
    outcome,          \* what the last script run showed
    trend,            \* the Trend metric shown, or "None"
    risk,             \* the (status, icon, message) shown, or None
    recent_ref,       \* the premiums[-10] the last classification read, or None
    option_chain,     \* what fetch_option_chain returned to the last script run
    call              \* the last direct call of a core function: its arguments and
                      \* what it returned ([fn |-> "none"] before any)

vars == <<premium_history, last_update, auto_refresh, pc, now, outcome, trend, risk,
          recent_ref, option_chain, call>>

\* the entry main() appends for a fully extracted premium
Entry(timestamp, premiums) ==
    [timestamp  |-> timestamp,
     combined   |-> premiums.combined,
     straddle_a |-> premiums.straddle_a,
     straddle_b |-> premiums.straddle_b,
     spot       |-> Val(premiums.spot)]

\* append, then keep the first 500 data points: history[:500]
AppendKeepsHead(history, entry) ==
    LET appended == Append(history, entry)
    IN  IF Len(appended) > HISTORY_CAP THEN SubSeq(appended, 1, HISTORY_CAP) ELSE appended

\* append, then "Keep only last 500 data points"
AppendCapped(history, entry) ==
    LET appended == Append(history, entry)
    IN  IF Len(appended) > HISTORY_CAP THEN LastK(appended, HISTORY_CAP) ELSE appended

\* determine_risk_status reaches its read of premiums[-10]
ReadsReference(history) ==
    Len(history) >= RISK_LOOKBACK /\ Sum(Combined(history)) # 0

\* the end of a script run that raised nothing: "Auto-refresh logic"
AfterRun == IF auto_refresh THEN "sleep" ELSE "idle"

Init ==
    /\ premium_history = <<>>
    /\ last_update = None
    /\ auto_refresh = TRUE
    /\ pc = "run"
    /\ now = 0
    /\ outcome = "start"
    /\ trend = "None"
    /\ risk = None
    /\ recent_ref = None
    /\ option_chain = None
    /\ call = [fn |-> "none"]

\* One script run of main() whose Clear History button is not pressed: fetch,
\* extract, append, classify, present, then sleep or stop.
RunScript(fetched, max_polls) ==
    /\ pc = "run"
    /\ now < max_polls
    /\ option_chain' = fetched
    /\ IF Truthy(fetched)
       THEN LET premiums == calculate_straddle_premiums(fetched, STRIKE_1, STRIKE_2)
            IN  IF ~IsNone(premiums)
                THEN LET timestamp == now + 1
                         history   == AppendCapped(premium_history,
                                                   Entry(timestamp, Val(premiums)))
                         t == determine_trend(history, DEFAULT_WINDOW)
                         r == IF t = ZeroDivisionError THEN <<ZeroDivisionError>>
                              ELSE determine_risk_status(history, Val(premiums).combined)
                     IN  /\ now' = timestamp
                         /\ premium_history' = history
                         /\ last_update' = Some(timestamp)
                         /\ recent_ref' =
                                IF t # ZeroDivisionError /\ ReadsReference(history)
                                THEN Some(FromEnd(Combined(history), RISK_LOOKBACK))
                                ELSE None
                         /\ IF r = <<ZeroDivisionError>>
                            THEN /\ outcome' = ZeroDivisionError
                                 /\ trend' = "None"
                                 /\ risk' = None
                                 /\ pc' = "idle"
                            ELSE /\ outcome' = "presented"
                                 /\ trend' = t
                                 /\ risk' = r
                                 /\ pc' = AfterRun
                ELSE /\ outcome' = "MissingLeg"
                     /\ trend' = "None"
                     /\ risk' = None
                     /\ recent_ref' = None
                     /\ pc' = AfterRun
                     /\ UNCHANGED <<premium_history, last_update, now>>
       ELSE /\ outcome' = "FetchFailure"
            /\ trend' = "None"
            /\ risk' = None
            /\ recent_ref' = None
            /\ pc' = AfterRun
            /\ UNCHANGED <<premium_history, last_update, now>>
    /\ UNCHANGED <<auto_refresh, call>>

\* time.sleep(30) returns and st.rerun() starts the next script run
WakeUp ==
    /\ pc = "sleep"
    /\ pc' = "run"
    /\ UNCHANGED <<premium_history, last_update, auto_refresh, now, outcome, trend, risk,
                   recent_ref, option_chain, call>>

\* a Clear History that resets last_update and leaves the store alone
ClearLeavesStore ==
    /\ pc \in {"sleep", "idle"}
    /\ last_update' = None
    /\ pc' = "run"
    /\ outcome' = "cleared"
    /\ trend' = "None"
    /\ risk' = None
    /\ recent_ref' = None
    /\ UNCHANGED <<premium_history, auto_refresh, now, option_chain, call>>

\* the user presses Clear History: the run it triggers empties the store and reruns
ClearHistory ==
    /\ pc \in {"sleep", "idle"}
    /\ premium_history' = <<>>
    /\ pc' = "run"
    /\ outcome' = "cleared"
    /\ trend' = "None"
    /\ risk' = None
    /\ recent_ref' = None
    /\ UNCHANGED <<last_update, auto_refresh, now, option_chain, call>>

\* the user flips the checkbox: Streamlit reruns the script with the new value
ToggleAutoRefresh ==
    /\ pc \in {"sleep", "idle"}
    /\ auto_refresh' = ~auto_refresh
    /\ pc' = "run"
    /\ UNCHANGED <<premium_history, last_update, now, outcome, trend, risk, recent_ref,
                   option_chain, call>>

\* ------------------------------------------------------------ quote snapshots

\* one ticker record of the /v2/tickers result
Quote(strike, kind, mark) ==
    [strike_price |-> Str(strike), symbol |-> <<kind, "-", "B", "T", "C">>,
     mark_price |-> Str(mark), spot_price |-> Str(77000)]

FullChain(call_1, put_1, call_2, put_2) ==
    <<Quote(STRIKE_1, "C", call_1), Quote(STRIKE_1, "P", put_1),
      Quote(STRIKE_2, "C", call_2), Quote(STRIKE_2, "P", put_2)>>

\* what fetch_option_chain can hand to a run: None (an API error or an
\* unsuccessful reply), an empty result, a result lacking the first call leg,
\* a full result whose four marks are 0, and a full result worth 100
SpecChains ==
    {None,
     Some(<<>>),
     Some(Tail(FullChain(40, 30, 20, 10))),
     Some(FullChain(0, 0, 0, 0)),
     Some(FullChain(40, 30, 20, 10))}

\* successful polls per behaviour
MaxPolls == 11

Next ==
    \/ \E fetched \in SpecChains : RunScript(fetched, MaxPolls)
    \/ WakeUp
    \/ ClearHistory
    \/ ToggleAutoRefresh

Spec == Init /\ [][Next]_vars

\* ------------------------------------------------------------ the cap

\* a fetch that fails and a full result worth 100
CapChains == {None, Some(FullChain(40, 30, 20, 10))}

\* successful polls per behaviour of SpecCap, past HISTORY_CAP
CapPolls == 503

\* In SpecCap the user presses Clear History within the first ClearSlack polls
\* of the session, or on a store within ClearSlack entries of the cap.
ClearSlack == 2

NextCap ==
    \/ \E fetched \in CapChains : RunScript(fetched, CapPolls)
    \/ WakeUp
    \/ /\ \/ now <= ClearSlack
          \/ Len(premium_history) >= HISTORY_CAP - ClearSlack
       /\ ClearHistory

SpecCap == Init /\ [][NextCap]_vars

\* ------------------------------------------------------------ properties of the session

HistoryLen == Len(premium_history)

\* the store holds consecutive appends, the newest being the last one made
ConsecutiveToNow ==
    \A i \in 1..HistoryLen : premium_history[i].timestamp = now - HistoryLen + i

\* a step that appends keeps the newest HISTORY_CAP entries of the old store plus
\* the new entry, in append order, and evicts nothing before the cap is exceeded
AppendStep ==
    (premium_history' # premium_history /\ premium_history' # <<>>) =>
        LET old == premium_history
            new == premium_history'
        IN  /\ Len(new) = (IF Len(old) < HISTORY_CAP THEN Len(old) + 1 ELSE HISTORY_CAP)
            /\ now' = now + 1
            /\ new[Len(new)].timestamp = now'
            /\ \A i \in 1..(Len(new) - 1) : new[i] = old[Len(old) - (Len(new) - 1) + i]

\* C1: after any sequence of poll cycles and Clear History actions the store holds
\* at most 500 entries, and once more than 500 have been appended since the last
\* clear it holds exactly the 500 most recently appended, in append order.
C1_HistoryCap ==
    /\ [](HistoryLen <= HISTORY_CAP /\ ConsecutiveToNow)
    /\ [][AppendStep]_vars

\* a full store whose oldest entries were evicted (no clear leaves a first
\* timestamp this late in a full store)
C1_Witness ==
    /\ HistoryLen = HISTORY_CAP
    /\ premium_history[1].timestamp > ClearSlack + 1
    /\ outcome = "presented"

\* the snapshot holds a call and a put at both strikes
HasLeg(chain, strike, kind) ==
    \E i \in 1..Len(chain) :
        /\ "strike_price" \in DOMAIN chain[i]
        /\ Float(chain[i].strike_price) = strike
        /\ "symbol" \in DOMAIN chain[i]
        /\ Len(chain[i].symbol) > 0
        /\ chain[i].symbol[1] = kind

AllLegs(fetched) ==
    /\ fetched # None
    /\ \A strike \in {STRIKE_1, STRIKE_2} : \A kind \in {"C", "P"} :
           HasLeg(fetched[1], strike, kind)

\* C2: a poll cycle without a fully extracted premium (fetch failed, empty chain,
\* a leg absent) leaves premium_history and last_update as they were, and an entry
\* is appended only in a cycle whose snapshot held all four legs.
C2_FailedCycleFrame ==
    [][/\ (pc = "run" /\ ~AllLegs(option_chain')) =>
              /\ premium_history' = premium_history
              /\ last_update' = last_update
              /\ outcome' \in {"FetchFailure", "MissingLeg"}
       /\ (premium_history' # premium_history /\ premium_history' # <<>>) =>
              /\ pc = "run"
              /\ AllLegs(option_chain')
              /\ Len(premium_history') = HistoryLen + 1]_vars

\* a cycle that lacked a leg, run on a store that already holds entries
C2_Witness ==
    /\ outcome = "MissingLeg"
    /\ option_chain # None
    /\ option_chain[1] # <<>>
    /\ HistoryLen > 1
    /\ last_update = Some(premium_history[HistoryLen].timestamp)

\* the trend window's first half sums to zero
TrendDegenerate ==
    /\ HistoryLen >= DEFAULT_WINDOW
    /\ premium_history[HistoryLen - 4].combined + premium_history[HistoryLen - 3].combined = 0

\* premium[-10] or the average of the history is zero
RiskDegenerate ==
    /\ HistoryLen >= RISK_LOOKBACK
    /\ \/ premium_history[HistoryLen - 9].combined = 0
       \/ \A i \in 1..HistoryLen : premium_history[i].combined = 0

Classified == outcome \in {"presented", ZeroDivisionError}

\* C3: degenerate denominators never fault a cycle: a zero first-half average
\* gives Flat, a zero premium[-10] or history average gives Neutral, and no poll
\* cycle ends in a division by zero.
C3_GuardedDenominators ==
    /\ outcome # ZeroDivisionError
    /\ (Classified /\ TrendDegenerate) => trend = "Flat"
    /\ (Classified /\ RiskDegenerate) => (risk # None /\ risk[1] = "Neutral")

\* C4 (as stated): the reference of recent_change_pct is the entry appended exactly
\* 10 successful polls before the current poll.
C4_ReferenceTenPollsAgo ==
    (recent_ref # None /\ HistoryLen > RISK_LOOKBACK) =>
        \E i \in 1..HistoryLen :
            /\ premium_history[i].timestamp = now - RISK_LOOKBACK
            /\ premium_history[i].combined = recent_ref[1]

\* C4 (amended): the reference is the entry appended exactly 9 successful polls
\* before the current poll: the 10th newest entry, the current cycle's own counted.
C4_ReferenceNinePollsAgo ==
    recent_ref # None =>
        /\ HistoryLen >= RISK_LOOKBACK
        /\ \E i \in 1..HistoryLen :
               /\ premium_history[i].timestamp = now - (RISK_LOOKBACK - 1)
               /\ i = HistoryLen - (RISK_LOOKBACK - 1)
               /\ premium_history[i].combined = recent_ref[1]

\* a classification whose 10th newest and 11th newest entries differ
C4_Witness ==
    /\ recent_ref # None
    /\ outcome = "presented"
    /\ HistoryLen > RISK_LOOKBACK
    /\ premium_history[HistoryLen - RISK_LOOKBACK].combined
           # premium_history[HistoryLen - RISK_LOOKBACK + 1].combined

\* C8: Clear History empties the store whatever it held, and the next successful
\* cycle classifies over its own entry alone: Insufficient Data and Neutral
\* ("Collecting initial data...").
C8_ClearThenFresh ==
    /\ [](outcome = "cleared" => premium_history = <<>>)
    /\ [][(premium_history = <<>> /\ premium_history' # <<>>) =>
              /\ Len(premium_history') = 1
              /\ now' > now
              /\ premium_history'[1].timestamp = now'
              /\ outcome' = "presented"
              /\ trend' = "Insufficient Data"
              /\ risk' = <<"Neutral", "white", "Collecting initial data...">>]_vars

\* the first successful cycle after a full store was cleared
C8_Witness ==
    /\ HistoryLen = 1
    /\ premium_history[1].timestamp > HISTORY_CAP
    /\ outcome = "presented"
    /\ trend = "Insufficient Data"

\* C9: with auto-refresh enabled no poll cycle is terminal: whatever the cycle
\* ended in, the script is sleeping towards its rerun or a run is due.
C9_NoTerminalCycle == auto_refresh => pc \in {"sleep", "run"}

\* ------------------------------------------------------------ the core functions, called directly

\* a history whose combined premiums are the given values
AsHistory(values) ==
    [i \in 1..Len(values) |->
        [timestamp |-> i, combined |-> values[i], straddle_a |-> values[i],
         straddle_b |-> 0, spot |-> 77000]]

SeqsUpTo(S, n) == UNION {[1..k -> S] : k \in 0..n}

\* combined premiums the trend classifier is called on
TrendValues == {0, 80, 90, 99, 100, 101}
\* longest history and largest window of a direct determine_trend call
MaxTrendLen == 5
MaxWindow == 5

CallTrend ==
    /\ call.fn = "none"
    /\ \E values \in SeqsUpTo(TrendValues, MaxTrendLen) : \E window \in 1..MaxWindow :
           call' = [fn |-> "determine_trend", premiums |-> values, window |-> window,
                    ret |-> determine_trend(AsHistory(values), window)]
    /\ UNCHANGED <<premium_history, last_update, auto_refresh, pc, now, outcome, trend,
                   risk, recent_ref, option_chain>>

SpecTrend == Init /\ [][CallTrend]_vars

\* combined premiums the risk classifier is called on
RiskValues == {80, 100, 110}
\* longest history of a direct determine_risk_status call
MaxRiskLen == 10

CallRisk ==
    /\ call.fn = "none"
    /\ \E values \in SeqsUpTo(RiskValues, MaxRiskLen) : \E current \in RiskValues :
           call' = [fn |-> "determine_risk_status", premiums |-> values,
                    current_premium |-> current,
                    ret |-> determine_risk_status(AsHistory(values), current)]
    /\ UNCHANGED <<premium_history, last_update, auto_refresh, pc, now, outcome, trend,
                   risk, recent_ref, option_chain>>

SpecRisk == Init /\ [][CallRisk]_vars

\* ticker records of a snapshot: both strikes' calls and puts (the first call
\* at two marks, one of them 0), a call at another strike, a record without a
\* symbol and a record without a strike
Tickers ==
    {Quote(STRIKE_1, "C", 0), Quote(STRIKE_1, "C", 1), Quote(STRIKE_1, "P", 2),
     Quote(STRIKE_2, "C", 4), Quote(STRIKE_2, "P", 8),
     Quote(70000, "C", 16),
     [strike_price |-> Str(STRIKE_1), mark_price |-> Str(32), spot_price |-> Str(77000)],
     [symbol |-> <<"P", "-">>, mark_price |-> Str(64), spot_price |-> Str(77000)]}

\* longest snapshot of a direct calculate_straddle_premiums call
MaxChain == 5

CallExtract ==
    /\ call.fn = "none"
    /\ \E fetched \in {None} \cup {Some(chain) : chain \in SeqsUpTo(Tickers, MaxChain)} :
           call' = [fn |-> "calculate_straddle_premiums", option_chain |-> fetched,
                    ret |-> calculate_straddle_premiums(fetched, STRIKE_1, STRIKE_2)]
    /\ UNCHANGED <<premium_history, last_update, auto_refresh, pc, now, outcome, trend,
                   risk, recent_ref, option_chain>>

SpecExtract == Init /\ [][CallExtract]_vars

\* ------------------------------------------------------------ properties of the core functions

\* p[a] + ... + p[b]
RECURSIVE SumRange(_, _, _)
SumRange(p, a, b) == IF a > b THEN 0 ELSE p[a] + SumRange(p, a + 1, b)

Largest(p) == CHOOSE x \in {p[i] : i \in 1..Len(p)} : \A i \in 1..Len(p) : p[i] <= x
Smallest(p) == CHOOSE x \in {p[i] : i \in 1..Len(p)} : \A i \in 1..Len(p) : p[i] >= x

C6_TrendRule ==
    call.fn = "determine_trend" =>
        LET p    == call.premiums
            n    == Len(p)
            w    == call.window
            half == w \div 2
            rest == w - half
            F    == SumRange(p, n - w + 1, n - w + half)
            S    == SumRange(p, n - w + half + 1, n)
            \* (S/rest - F/half) / (F/half) * 100, times F * rest, which is positive
            scaled == 100 * (S * half - F * rest)
        IN  /\ (call.ret = "Insufficient Data") <=> (n < w)
            /\ (n >= w /\ half > 0 /\ F # 0) =>
                  call.ret = (IF scaled > F * rest THEN "Rising"
                              ELSE IF scaled < -(F * rest) THEN "Falling"
                              ELSE "Flat")
            /\ (p = <<100, 100, 100, 90, 80>> /\ w = 5) => call.ret = "Falling"

\* a change of exactly +1% (first half 100, second half 101) judged Flat
C6_Witness ==
    /\ call.fn = "determine_trend"
    /\ call.premiums = <<100, 100, 101, 101, 101>>
    /\ call.window = 5
    /\ call.ret = "Flat"

\* the mark of the first record of the chain that has the strike and the kind
RECURSIVE FirstMark(_, _, _)
FirstMark(chain, strike, kind) ==
    IF HasLeg(<<Head(chain)>>, strike, kind)
    THEN Float(Head(chain).mark_price)
    ELSE FirstMark(Tail(chain), strike, kind)

\* C7: calculate_straddle_premiums returns no result exactly when one of the four
\* legs has no record of equal strike and matching kind prefix; otherwise each leg
\* is the mark of the first matching record, straddle_a = call_1 + put_1,
\* straddle_b = call_2 + put_2, combined = straddle_a + straddle_b; a mark of 0
\* counts as present.
C7_ExtractAllOrNothing ==
    call.fn = "calculate_straddle_premiums" =>
        IF ~AllLegs(call.option_chain)
        THEN call.ret = None
        ELSE /\ call.ret # None
             /\ LET chain == call.option_chain[1]
                    r     == call.ret[1]
                IN  /\ r.call_1 = FirstMark(chain, STRIKE_1, "C")
                    /\ r.put_1  = FirstMark(chain, STRIKE_1, "P")
                    /\ r.call_2 = FirstMark(chain, STRIKE_2, "C")
                    /\ r.put_2  = FirstMark(chain, STRIKE_2, "P")
                    /\ r.straddle_a = r.call_1 + r.put_1
                    /\ r.straddle_b = r.call_2 + r.put_2
                    /\ r.combined = r.straddle_a + r.straddle_b
                    /\ r.combined = r.call_1 + r.put_1 + r.call_2 + r.put_2

\* a full snapshot holding the first call twice: the earlier record, marked 0, wins
C7_Witness ==
    /\ call.fn = "calculate_straddle_premiums"
    /\ call.ret # None
    /\ call.option_chain[1][1] = Quote(STRIKE_1, "C", 0)
    /\ \E i \in 2..Len(call.option_chain[1]) :
           call.option_chain[1][i] = Quote(STRIKE_1, "C", 1)
    /\ call.ret[1].call_1 = 0
    /\ call.ret[1].combined = 14

\* ------------------------------------------------------------ end to end

\* The snapshots of a run of polls whose combined premium falls linearly from 100
\* to 70 over 15 polls, in sevenths of a unit: poll i + 1 is worth 700 - 15 * i,
\* carried by the first call or, on every second poll, by the last put.
LinearChains(i) ==
    {Some(FullChain(700 - 15 * i - 30, 10, 10, 10))}
        \cup (IF i % 2 = 0 THEN {Some(FullChain(10, 10, 10, 700 - 15 * i - 30))} ELSE {})

\* successful polls per behaviour of SpecE2E
E2EPolls == 15

NextE2E ==
    \/ \E fetched \in LinearChains(now) : RunScript(fetched, E2EPolls)
    \/ WakeUp

SpecE2E == Init /\ [][NextE2E]_vars

\* C10: from an empty history, 15 consecutive successful polls whose combined
\* premiums fall linearly from 100 to 70 end with 15 entries, Trend Falling and
\* Risk Safe.
C10_LinearDecline ==
    (now = 15 /\ outcome = "presented") =>
        /\ HistoryLen = 15
        /\ trend = "Falling"
        /\ risk # None
        /\ risk[1] = "Safe"

\* the 15th poll of the decline, presented: 700 (100) down to 490 (70)
C10_Witness ==
    /\ now = 15
    /\ outcome = "presented"
    /\ HistoryLen = 15
    /\ \A i \in 1..15 : premium_history[i].combined = 700 - 15 * (i - 1)
    /\ premium_history[1].combined * 7 = premium_history[15].combined * 10

====
